---- MODULE Spec2Model ----
(***************************************************************************)
(* Model of the sampling campaign of src/sampling_articles.py:             *)
(*   sample_impresso_uids   the stratified sampler of one keyword          *)
(*   run_all_newsagencies   the campaign runner with its checkpoint file   *)
(*   get_client             the refreshing client proxy (closure of run)   *)
(*   _get_impresso_client_lazy   the session provider as run consumes it   *)
(* The remote search API, the login flow, the clock and the file system    *)
(* are the environment: every outcome they can produce is a               *)
(* nondeterministic choice of the action that consults them.               *)
(***************************************************************************)
EXTENDS Integers, Sequences, FiniteSets, TLC

VARIABLES
    pc,                \* position of run_all_newsagencies / sample_impresso_uids
    file,              \* content of the checkpoint file out_path
    agencies,          \* keywords read from the input file (line 282)
    limit_per_query,   \* argument of run, passed on to the sampler
    max_hits,          \* argument of run, passed on to the sampler
    start_date,        \* argument of run, passed on to the sampler
    end_date,          \* argument of run, passed on to the sampler
    clock_steps,       \* environment: seconds that may pass between two clock readings
    traced,            \* whether this run keeps the history of the gateway answers
    results,           \* dict agency -> list of doc ids (line 265)
    loaded,            \* history: results as they were after the load (265-275)
    idx,               \* 1-based position of the for loop of line 322
    client,            \* nonlocal client of get_client: the session held
    last_refresh,      \* nonlocal last_refresh
    last_hint,         \* nonlocal last_hint
    now,               \* last value read from time.time()
    sessions,          \* number of sessions the provider has created so far
    acquireCalls,      \* number of calls of _get_impresso_client_lazy so far
    cur,               \* history: what the last get_client() call did
    attempted,         \* history: the time of the last refresh attempt of get_client
    sampled_uids,      \* local of the sampler (line 119)
    found,             \* local of the sampler (line 120)
    sorted_year_buckets, \* years still to visit (line 146, the for of 150)
    year,              \* current year of the for loop of line 150
    newspaper_buckets, \* newspapers still to visit (line 163, the for of 172)
    newspaper_id,      \* current newspaper of the for loop of line 172
    date_range,        \* local of the sampler (lines 125, 128, 156)
    exc,               \* the exception that left the sampler, "none" if none
    last,              \* history: the last gateway call and its outcome
    pauseDue,          \* history: a find call was made and no sleep followed yet
    answer,            \* history: the data of the gateway answer of the step just taken
    tally,             \* history: the gateway calls of the sampler call in progress
    writeLog,          \* history: the outcome of every checkpoint write of this run
    goto_log,          \* history: the page.goto calls of the _goto_with_retries call in progress
    last_err,          \* local of _goto_with_retries
    goto_i,            \* the attempts the for loop of _goto_with_retries has made
    nav_round,         \* which navigation of get_impresso_token is in progress (1..3)
    resp,              \* local of get_impresso_token: the response of the navigation
    token,             \* local of get_impresso_token
    raised,            \* the error that left get_impresso_token, NoErr if none
    prevFile,          \* history: the file as it was when the last write began
    crashAt            \* history: where the process was killed, "none" if not

vars == <<pc, file, agencies, limit_per_query, max_hits, start_date, end_date,
          clock_steps, traced,
          results, loaded, idx,
          client, last_refresh, last_hint, now, sessions, acquireCalls, cur, attempted,
          sampled_uids, found, sorted_year_buckets, year, newspaper_buckets,
          newspaper_id, date_range, exc, last, pauseDue, answer, tally, writeLog,
          goto_log, last_err, goto_i, nav_round, resp, token, raised,
          prevFile, crashAt>>

runVars == <<agencies, limit_per_query, max_hits, start_date, end_date,
             clock_steps, traced>>
providerVars == <<goto_log, last_err, goto_i, nav_round, resp, token, raised>>
proxyVars == <<client, last_refresh, last_hint, now, sessions, acquireCalls, cur,
               attempted>>
loopVars == <<sorted_year_buckets, year, newspaper_buckets, newspaper_id,
              date_range>>
fileVars == <<file, prevFile>>

----------------------------------------------------------------------------
(* Program constants *)

CLIENT_REFRESH_INTERVAL_SECONDS == 27000
CLIENT_REFRESH_HINT_INTERVAL_SECONDS == 900

(* Bounds of the model *)

MaxYears == 2      \* most year buckets one facet answer holds
MaxPapers == 2     \* most newspaper buckets one facet answer holds
MaxMaxHits == 2    \* largest max_hits tried
MaxHitsPerFind == 2 \* most hits one find answer holds
MaxClock == 54900  \* the clock is not read beyond this value

----------------------------------------------------------------------------
(* Values of the environment *)

NoYear == 0                      \* a bucket whose "value" is missing or falsy
YearValues == {NoYear, 1920, 1921}
NoPaper == ""                    \* a bucket whose "value" is missing or falsy
PaperValues == {NoPaper, "GDL", "JDG"}
NoUid == ""                      \* a hit without "uid"
UidValues == {NoUid, "u1", "u2"}

\* Seconds that may pass between two readings of the clock: none, exactly the
\* hint interval, and what is left of the refresh interval after one hint.
Deltas == {0, CLIENT_REFRESH_HINT_INTERVAL_SECONDS,
           CLIENT_REFRESH_INTERVAL_SECONDS - CLIENT_REFRESH_HINT_INTERVAL_SECONDS}

\* Sequences over S without repetition, of length at most n.
DistinctSeqs(S, n) ==
    {s \in UNION {[1..k -> S] : k \in 0..n} :
        \A i, j \in 1..Len(s) : i # j => s[i] # s[j]}

\* What the gateway may answer to a facet or a find call that does not fail.
YearFacetResults == DistinctSeqs(YearValues, MaxYears)
PaperFacetResults == DistinctSeqs(PaperValues, MaxPapers)
HitLists == DistinctSeqs(UidValues, MaxHitsPerFind)

\* Dates "YYYY-MM-DD" as the number YYYYMMDD, which is ordered as the dates
\* are; NoDate is the None of an argument that is not given.
NoDate == 0
Date(y, m, d) == y * 10000 + m * 100 + d
YearOf(date) == date \div 10000
StartDates == {NoDate, Date(1920, 7, 1)}
EndDates == {NoDate, Date(1921, 6, 30)}

\* DateRange(start, end) of the client library; NoRange is date_range = None
DateRange(from, to) == [from |-> from, to |-> to]
NoRange == DateRange(NoDate, NoDate)

\* lines 124-128: the range of the year facet
CallerRange(start, end) == DateRange(start, end)

\* line 156: DateRange(f"{year}-01-01", f"{year}-12-31")
YearRange(y) == DateRange(Date(y, 1, 1), Date(y, 12, 31))

\* The year facet of a query with a date range holds only years that have
\* a day in the range (and buckets without a value).
YearsWithin(range) ==
    {b \in YearFacetResults :
        \A i \in 1..Len(b) :
            b[i] # NoYear =>
                /\ range.from # NoDate => b[i] >= YearOf(range.from)
                /\ range.to # NoDate => b[i] <= YearOf(range.to)}

\* Outcomes of one call of _get_impresso_client_lazy: the first attempt
\* succeeds, the first fails and the second succeeds, or both fail.
ProviderOutcomes == {"ok", "retry_ok", "fail"}

Range(s) == {s[i] : i \in 1..Len(s)}

EmptyDict == [k \in {} |-> <<>>]
Dict1(k, v) == [x \in {k} |-> v]
Dict2(k1, v1, k2, v2) == [x \in {k1, k2} |-> IF x = k1 THEN v1 ELSE v2]

\* JSON documents: what json.dump writes and json.load parses
NoJson == [t |-> "none"]
JString(s) == [t |-> "string", s |-> s]
JArray(items) == [t |-> "array", items |-> items]
JObject(members) == [t |-> "object", members |-> members]

\* line 348: json.dump(results, f, ...) of a dict of str -> list of str: an
\* object with one member per key, whose value is the array of the strings
\* of the list, in the order of the list
DumpList(uids) == JArray([i \in 1..Len(uids) |-> JString(uids[i])])
Dumps(d) == JObject([k \in DOMAIN d |-> DumpList(d[k])])

\* line 271: list(v) of the value of one member of the loaded object, an
\* array of strings
PyList(v) == [i \in 1..Len(v.items) |-> v.items[i].s]

\* Variant: members whose list is empty are left out.
LoadsNonEmpty(doc) ==
    [k \in {x \in DOMAIN doc.members : doc.members[x].items # <<>>} |->
        PyList(doc.members[k])]

\* line 271: {str(k): list(v) for k, v in existing.items()}
Loads(doc) == [k \in DOMAIN doc.members |-> PyList(doc.members[k])]

\* The checkpoint file: absent, a complete JSON object, a JSON value that is
\* not an object, what an interrupted write leaves (empty or cut short), or a
\* path that exists and cannot be opened for reading.
Absent == [kind |-> "absent", doc |-> NoJson]
NonObject == [kind |-> "nonobject", doc |-> JArray(<<>>)]
Truncated == [kind |-> "empty", doc |-> NoJson]
Partial == [kind |-> "partial", doc |-> NoJson]
Unreadable == [kind |-> "unreadable", doc |-> NoJson]
Object(m) == [kind |-> "object", doc |-> Dumps(m)]

AgencyLists == {<<>>, <<"agencyA", "agencyB">>}
LimitChoices == {0, 20, 101}
InitialFiles ==
    {Absent, NonObject, Truncated, Unreadable,
     Object(Dict1("agencyA", <<"u1">>)),
     Object(Dict2("agencyA", <<>>, "other", <<"u2">>)),
     Object(Dict2("agencyA", <<"u1">>, "agencyB", <<"u2">>))}

----------------------------------------------------------------------------
(* Pure helpers of the code *)

\* Variant: the assignment builds a new dict that holds the one key.
PutAlone(d, k, v) == [x \in {k} |-> v]

\* dict assignment results[k] = v
Put(d, k, v) == [x \in DOMAIN d \cup {k} |-> IF x = k THEN v ELSE d[x]]

\* sorted(year_buckets, key=lambda b: b.get("value")), line 146: a stable
\* insertion sort on the bucket values.
RECURSIVE Insert(_, _)
Insert(x, s) ==
    IF s = <<>> THEN <<x>>
    ELSE IF x < Head(s) THEN <<x>> \o s
    ELSE <<Head(s)>> \o Insert(x, Tail(s))

RECURSIVE Sorted(_)
Sorted(s) ==
    IF s = <<>> THEN <<>>
    ELSE Insert(s[Len(s)], Sorted(SubSeq(s, 1, Len(s) - 1)))

\* Variant: only the upper end of the range is tested.
InvalidLimitAbove(limit) == ~(limit <= 100)

\* line 111: not 0 < limit_per_query <= 100
InvalidLimit(limit) == ~(0 < limit /\ limit <= 100)

\* Variant: the cap is tested with > instead of >=.
ReachedMaxLate(n, cap) == n > cap

\* line 210: found >= max_hits
ReachedMax(n, cap) == n >= cap

\* Variant: the skip tests only that the keyword has an entry.
AlreadyProcessedPresent(res, a) == a \in DOMAIN res

\* Variant: the emptiness test of the skip is inverted.
AlreadyProcessedInverted(res, a) == a \in DOMAIN res /\ res[a] = <<>>

\* line 324: agency in results and isinstance(results[agency], list) and results[agency]
AlreadyProcessed(res, a) == a \in DOMAIN res /\ res[a] # <<>>

\* line 299: now - last_hint >= CLIENT_REFRESH_HINT_INTERVAL_SECONDS
HintDue(t, hinted) == t - hinted >= CLIENT_REFRESH_HINT_INTERVAL_SECONDS

\* Variant: the refresh is due only after more than the interval.
RefreshDueLate(t, refreshed) == t - refreshed > CLIENT_REFRESH_INTERVAL_SECONDS

\* line 307: now - last_refresh >= CLIENT_REFRESH_INTERVAL_SECONDS
RefreshDue(t, refreshed) == t - refreshed >= CLIENT_REFRESH_INTERVAL_SECONDS

\* lines 266-275: json.load of the checkpoint; anything but a complete JSON
\* object (a missing file, invalid JSON, a non-object) leaves results = {}.
LoadResults(f) == IF f.kind = "object" THEN Loads(f.doc) ELSE EmptyDict

\* lines 228-245: get_impresso_client() is tried, and tried once more when the
\* first attempt raises; ImportError when both raise.
LazyOk(p) == p \in {"ok", "retry_ok"}
LazyAttempts(p) == IF p = "ok" THEN 1 ELSE 2

----------------------------------------------------------------------------
(* State after the arguments of run_all_newsagencies are bound *)

\* no refresh has been attempted by get_client
NoTime == -1

NoCur == [refresh |-> "none", attempts |-> 0, hint |-> FALSE, held |-> 0]
NoCall == [op |-> "none", ok |-> FALSE, session |-> 0]
NoTally == [facets |-> 0, finds |-> 0, cells |-> 0, hits |-> "all_uid"]
VoidTally == [facets |-> 0, finds |-> 0, cells |-> 0, hits |-> "void"]

----------------------------------------------------------------------------
(* getting_client.py: the texts the token step works on.  A text is the
   sequence of its characters; "u200b", "u200c" and "ufeff" stand for the
   zero-width characters of line 192. *)

Whitespace == {" ", "\n"}
ZeroWidth == {"u200b", "u200c", "ufeff"}
HexChars == {"0", "9", "a", "f", "A", "F"}
Base64ishChars == HexChars \cup {"e", "y", "J", "z", "Z", "_", "-"}

\* last_err = None; resp before a navigation has returned
NoErr == "none"
NoResp == [ok |-> FALSE, status |-> 0, err |-> NoErr]

\* A value that is a str or None
None == [none |-> TRUE, s |-> <<>>]
Str(s) == [none |-> FALSE, s |-> s]

\* not x, for x a str or None
Falsy(x) == x.none \/ x.s = <<>>

RECURSIVE LStrip(_, _)
LStrip(s, chars) ==
    IF s # <<>> /\ Head(s) \in chars THEN LStrip(Tail(s), chars) ELSE s

RECURSIVE RStrip(_, _)
RStrip(s, chars) ==
    IF s # <<>> /\ s[Len(s)] \in chars
    THEN RStrip(SubSeq(s, 1, Len(s) - 1), chars)
    ELSE s

\* str.strip(chars)
Strip(s, chars) == RStrip(LStrip(s, chars), chars)

\* str.replace(c, '') for every c of chars; re.sub(r'\s+', '', s)
Without(s, chars) == SelectSeq(s, LAMBDA c : c \notin chars)

\* lines 187-196
_clean_token_artifacts(x) ==
    IF x.none THEN x
    ELSE Str(Without(Without(Strip(Strip(Strip(x.s, Whitespace), {"\""}), {"'"}),
                             ZeroWidth),
                     Whitespace))

\* line 15, as re.fullmatch applies it: eyJ and at least one more character
\* of the class, a dot, a run of the class, a dot, a run of the class
JWT_REGEX(s) ==
    /\ Len(s) >= 8
    /\ s[1] = "e"
    /\ s[2] = "y"
    /\ s[3] = "J"
    /\ \E i, j \in 5..Len(s) :
          /\ i + 1 < j
          /\ j < Len(s)
          /\ s[i] = "."
          /\ s[j] = "."
          /\ \A k \in (1..Len(s)) \ {i, j} : s[k] \in Base64ishChars

\* line 16, as re.fullmatch applies it
HEX_LONG_REGEX(s) == Len(s) >= 64 /\ \A k \in 1..Len(s) : s[k] \in HexChars

\* line 17, as re.fullmatch applies it
BASE64ISH_LONG_REGEX(s) ==
    Len(s) >= 64 /\ \A k \in 1..Len(s) : s[k] \in Base64ishChars

\* Variant: every text that is not empty is taken for a token.
_is_plausible_tokenNonEmpty(tok) == ~Falsy(tok)

\* lines 199-209
_is_plausible_token(tok) ==
    IF Falsy(tok) THEN FALSE
    ELSE LET t == Strip(tok.s, Whitespace)
         IN \/ JWT_REGEX(t)
            \/ HEX_LONG_REGEX(t)
            \/ BASE64ISH_LONG_REGEX(t)

\* re.fullmatch(rx, s) for the three patterns
FullMatch(rx, s) ==
    IF rx = "JWT_REGEX" THEN JWT_REGEX(s)
    ELSE IF rx = "HEX_LONG_REGEX" THEN HEX_LONG_REGEX(s)
    ELSE BASE64ISH_LONG_REGEX(s)

\* re.search(rx, s): the match that begins first and, the patterns being
\* greedy runs of one character class, is the longest from there; None if
\* there is none.
Search(rx, s) ==
    LET M == {m \in (1..Len(s)) \X (1..Len(s)) :
                 m[1] <= m[2] /\ FullMatch(rx, SubSeq(s, m[1], m[2]))}
    IN IF M = {} THEN None
       ELSE LET i == CHOOSE a \in {m[1] : m \in M} :
                        \A b \in {m[1] : m \in M} : a <= b
                j == CHOOSE a \in {m[2] : m \in {n \in M : n[1] = i}} :
                        \A b \in {m[2] : m \in {n \in M : n[1] = i}} : a >= b
            IN Str(SubSeq(s, i, j))

\* lines 406-415 and 421-428: the JWT first, then long hex, then long base64ish
SearchAll(s) ==
    IF ~Search("JWT_REGEX", s).none THEN Search("JWT_REGEX", s)
    ELSE IF ~Search("HEX_LONG_REGEX", s).none THEN Search("HEX_LONG_REGEX", s)
    ELSE Search("BASE64ISH_LONG_REGEX", s)

\* The texts of a token page or of the clipboard
Jwt == <<"e", "y", "J", "0", ".", "a", "9", ".", "Z", "_">>
LongHex == [k \in 1..64 |-> "a"]
ShortHex == [k \in 1..63 |-> "a"]
LongBase64ish == [k \in 1..64 |-> IF k = 1 THEN "a" ELSE "z"]
SessionId == [k \in 1..32 |-> "9"]
Texts ==
    {<<>>, Jwt, LongHex, ShortHex, LongBase64ish, SessionId, <<"!">>,
     <<"\"">> \o Jwt \o <<"\"">>,
     <<" ">> \o LongHex \o <<"\n">>,
     <<"ufeff">> \o Jwt,
     SubSeq(LongHex, 1, 32) \o <<" ">> \o SubSeq(LongHex, 1, 32),
     <<"!">> \o SessionId \o <<"!">> \o LongBase64ish \o <<"!">>}

\* What a token page shows: no token element, one whose input_value() answers,
\* or one whose input_value() raises and whose inner_text() is read; and the
\* content of the page.
Pages ==
    [kind : {"none", "input", "text"}, text : Texts,
     content : {<<>>, <<"<">> \o Jwt \o <<">">>, <<"<">> \o SessionId \o <<">">>}]

\* lines 384-430, for one selector; None stands for the RuntimeError of
\* line 430, which the function raises instead of returning
_extract_token(page) ==
    LET val == _clean_token_artifacts(Str(Strip(page.text, Whitespace)))
        html == _clean_token_artifacts(Str(page.content))
    IN IF page.kind = "input" /\ _is_plausible_token(val) THEN val
       ELSE IF page.kind = "text" /\ ~SearchAll(val.s).none THEN SearchAll(val.s)
       ELSE SearchAll(html.s)

\* lines 773-783; a clipboard that cannot be read answers None
_read_clipboard_token(txt) ==
    LET tok == _clean_token_artifacts(Str(IF txt.none THEN <<>> ELSE txt.s))
    IN IF ~txt.none /\ _is_plausible_token(tok) THEN tok ELSE None


\* The memory of a process that has not run yet, or runs no more
NoMemory ==
    /\ results = EmptyDict
    /\ loaded = EmptyDict
    /\ idx = 1
    /\ client = 0
    /\ last_refresh = 0
    /\ last_hint = 0
    /\ now = 0
    /\ sessions = 0
    /\ acquireCalls = 0
    /\ cur = NoCur
    /\ attempted = NoTime
    /\ sampled_uids = <<>>
    /\ found = 0
    /\ sorted_year_buckets = <<>>
    /\ year = NoYear
    /\ newspaper_buckets = <<>>
    /\ newspaper_id = NoPaper
    /\ date_range = NoRange
    /\ exc = "none"
    /\ last = NoCall
    /\ pauseDue = FALSE
    /\ answer = <<>>
    /\ tally = NoTally
    /\ writeLog = <<>>
    /\ goto_log = <<>>
    /\ last_err = NoErr
    /\ goto_i = 0
    /\ nav_round = 0
    /\ resp = NoResp
    /\ token = None
    /\ raised = [by |-> "none", err |-> NoErr]

\* Every input of run, in a campaign so short that no hint and no refresh
\* falls due: the clock reads the same value throughout.
Init ==
    /\ pc = "load"
    /\ file \in InitialFiles
    /\ agencies \in AgencyLists
    /\ limit_per_query \in LimitChoices
    /\ max_hits \in 1..MaxMaxHits
    /\ start_date = NoDate
    /\ end_date = NoDate
    /\ clock_steps = {0}
    /\ traced = FALSE
    /\ NoMemory
    /\ prevFile = file
    /\ crashAt = "none"

\* One input of run, in a campaign long enough for hints and refreshes.
LongInit ==
    /\ pc = "load"
    /\ file = Absent
    /\ agencies = <<"agencyA">>
    /\ limit_per_query = 20
    /\ max_hits = MaxMaxHits
    /\ start_date = NoDate
    /\ end_date = NoDate
    /\ clock_steps = Deltas
    /\ traced = FALSE
    /\ NoMemory
    /\ prevFile = file
    /\ crashAt = "none"

\* Two keywords and no checkpoint, in a short campaign whose gateway answers
\* are kept as history.
TracedInit ==
    /\ pc = "load"
    /\ file = Absent
    /\ agencies = <<"agencyA", "agencyB">>
    /\ limit_per_query = 20
    /\ max_hits \in 1..MaxMaxHits
    /\ start_date = NoDate
    /\ end_date = NoDate
    /\ clock_steps = {0}
    /\ traced = TRUE
    /\ NoMemory
    /\ prevFile = file
    /\ crashAt = "none"

\* One keyword and no checkpoint, in a short campaign that is given a start
\* date, an end date, both or none.
DatedInit ==
    /\ pc = "load"
    /\ file = Absent
    /\ agencies = <<"agencyA">>
    /\ limit_per_query = 20
    /\ max_hits \in 1..MaxMaxHits
    /\ start_date \in StartDates
    /\ end_date \in EndDates
    /\ clock_steps = {0}
    /\ traced = FALSE
    /\ NoMemory
    /\ prevFile = file
    /\ crashAt = "none"

agency == agencies[idx]

----------------------------------------------------------------------------
(* run_all_newsagencies, lines 264-286: load the checkpoint, read the list *)

\* Variant: a checkpoint that cannot be loaded ends the run.
LoadFatal ==
    /\ pc = "load"
    /\ answer' = <<>>
    /\ results' = LoadResults(file)
    /\ loaded' = LoadResults(file)
    /\ pc' = IF file.kind \notin {"absent", "object"} THEN "aborted"
             ELSE IF agencies = <<>> THEN "done" ELSE "create_client"
    /\ UNCHANGED <<runVars, providerVars, proxyVars, fileVars, idx, sampled_uids, found,
                   loopVars, exc, last, pauseDue, crashAt,
                   writeLog, tally>>

\* lines 264-286: the checkpoint is loaded, the list of keywords is read
Load ==
    /\ pc = "load"
    /\ answer' = <<>>
    /\ results' = LoadResults(file)
    /\ loaded' = LoadResults(file)
    /\ pc' = IF agencies = <<>> THEN "done" ELSE "create_client"
    /\ UNCHANGED <<runVars, providerVars, proxyVars, fileVars, idx, sampled_uids, found,
                   loopVars, exc, last, pauseDue, crashAt,
                   writeLog, tally>>

(* _get_impresso_client_lazy called by run at line 291 and again at line 318;
   its ImportError is not caught by run. The clock read at lines 292 and 319
   is the origin of the model's time. *)
InitialClient(p, next) ==
    /\ answer' = <<>>
    /\ acquireCalls' = acquireCalls + 1
    /\ IF LazyOk(p)
       THEN /\ client' = sessions + 1
            /\ sessions' = sessions + 1
            /\ pc' = next
            /\ exc' = exc
       ELSE /\ UNCHANGED <<client, sessions>>
            /\ pc' = "aborted"
            /\ exc' = "ImportError"
    /\ last_refresh' = now
    /\ last_hint' = now
    /\ UNCHANGED <<runVars, providerVars, fileVars, results, loaded, idx, now, cur, attempted,
                   sampled_uids, found, loopVars, last, pauseDue, crashAt,
                   writeLog, tally>>

CreateClient ==
    /\ pc = "create_client"
    /\ \E p \in ProviderOutcomes : InitialClient(p, "create_client_again")

CreateClientAgain ==
    /\ pc = "create_client_again"
    /\ \E p \in ProviderOutcomes : InitialClient(p, "loop")

----------------------------------------------------------------------------
(* get_client, lines 295-315: the proxy every gateway call goes through.
   d is the time that passed since the clock was last read, p the outcome of
   _get_impresso_client_lazy should the refresh call it. *)

\* Variant: the client is assigned before the provider has answered.
RefreshedClientLost(p, held, fresh) == IF LazyOk(p) THEN fresh ELSE 0

\* lines 309-313: the try around the refresh
RefreshedClient(p, held, fresh) == IF LazyOk(p) THEN fresh ELSE held

\* Variant: the time of a refresh is recorded only when it succeeded.
get_clientRetriesFailed(d, p) ==
    LET t == now + d
        hint == HintDue(t, last_hint)
        due == RefreshDue(t, last_refresh)
    IN /\ t <= MaxClock
       /\ now' = t
       /\ last_hint' = IF hint THEN t ELSE last_hint
       /\ last_refresh' = IF due /\ LazyOk(p) THEN t ELSE last_refresh
       /\ client' = IF due THEN RefreshedClient(p, client, sessions + 1) ELSE client
       /\ sessions' = IF due /\ LazyOk(p) THEN sessions + 1 ELSE sessions
       /\ acquireCalls' = IF due THEN acquireCalls + 1 ELSE acquireCalls
       /\ attempted' = IF due THEN t ELSE attempted
       /\ cur' = [refresh  |-> IF ~due THEN "none"
                               ELSE IF LazyOk(p) THEN "ok" ELSE "failed",
                  attempts |-> IF due THEN LazyAttempts(p) ELSE 0,
                  hint     |-> hint,
                  held     |-> client]

\* Variant: the hint also renews the time of the last refresh.
get_clientHintRenews(d, p) ==
    LET t == now + d
        hint == HintDue(t, last_hint)
        due == RefreshDue(t, last_refresh)
    IN /\ t <= MaxClock
       /\ now' = t
       /\ last_hint' = IF hint THEN t ELSE last_hint
       /\ last_refresh' = IF due \/ hint THEN t ELSE last_refresh
       /\ client' = IF due THEN RefreshedClient(p, client, sessions + 1) ELSE client
       /\ sessions' = IF due /\ LazyOk(p) THEN sessions + 1 ELSE sessions
       /\ acquireCalls' = IF due THEN acquireCalls + 1 ELSE acquireCalls
       /\ attempted' = IF due THEN t ELSE attempted
       /\ cur' = [refresh  |-> IF ~due THEN "none"
                               ELSE IF LazyOk(p) THEN "ok" ELSE "failed",
                  attempts |-> IF due THEN LazyAttempts(p) ELSE 0,
                  hint     |-> hint,
                  held     |-> client]

\* lines 295-315
get_client(d, p) ==
    LET t == now + d
        hint == HintDue(t, last_hint)
        due == RefreshDue(t, last_refresh)
    IN /\ t <= MaxClock
       /\ now' = t
       /\ last_hint' = IF hint THEN t ELSE last_hint
       /\ last_refresh' = IF due THEN t ELSE last_refresh
       /\ client' = IF due THEN RefreshedClient(p, client, sessions + 1) ELSE client
       /\ sessions' = IF due /\ LazyOk(p) THEN sessions + 1 ELSE sessions
       /\ acquireCalls' = IF due THEN acquireCalls + 1 ELSE acquireCalls
       /\ attempted' = IF due THEN t ELSE attempted
       /\ cur' = [refresh  |-> IF ~due THEN "none"
                               ELSE IF LazyOk(p) THEN "ok" ELSE "failed",
                  attempts |-> IF due THEN LazyAttempts(p) ELSE 0,
                  hint     |-> hint,
                  held     |-> client]

\* Variant: the call is issued on the session held before the accessor ran.
CalledCached(op, ok) ==
    /\ \E d \in clock_steps :
          IF RefreshDue(now + d, last_refresh)
          THEN \E p \in ProviderOutcomes : get_client(d, p)
          ELSE get_client(d, "ok")
    /\ last' = [op |-> op, ok |-> ok, session |-> client]

\* get_c() of lines 102-103 followed by one gateway call, for every time step
\* and provider outcome; a provider outcome is drawn only when it is used.
Called(op, ok) ==
    /\ \E d \in clock_steps :
          IF RefreshDue(now + d, last_refresh)
          THEN \E p \in ProviderOutcomes : get_client(d, p)
          ELSE get_client(d, "ok")
    /\ last' = [op |-> op, ok |-> ok, session |-> client']

\* Does every hit of a find answer carry a uid, does at least one, or none?
HitsKind(hits) ==
    IF hits # <<>> /\ \A i \in 1..Len(hits) : hits[i] # NoUid THEN "all_uid"
    ELSE IF \E i \in 1..Len(hits) : hits[i] # NoUid THEN "some_uid"
    ELSE "void"

\* The record of one gateway call of the sampler: data is the "data" list of
\* the answer (lines 139, 163, 192) of a call that did not fail.  The calls
\* are counted as long as none has failed and every find answer had a hit
\* with a uid; from then on the tally is void.  A run that is not traced
\* keeps no history.
Answered(op, ok, data) ==
    /\ answer' = IF traced THEN data ELSE <<>>
    /\ tally' =
          IF ~traced THEN tally
          ELSE IF ~ok \/ tally.hits = "void" \/ (op = "find" /\ HitsKind(data) = "void")
          THEN VoidTally
          ELSE [facets |-> tally.facets + (IF op = "find" THEN 0 ELSE 1),
                finds  |-> tally.finds + (IF op = "find" THEN 1 ELSE 0),
                cells  |-> tally.cells +
                           (IF op = "facet_newspaper"
                            THEN Cardinality({i \in 1..Len(data) : data[i] # NoPaper})
                            ELSE 0),
                hits   |-> IF op = "find" /\ HitsKind(data) = "some_uid"
                           THEN "some_uid" ELSE tally.hits]

----------------------------------------------------------------------------
(* How sample_impresso_uids ends, seen from the loop body of run *)

\* lines 339-340: results[agency] = doc_ids
SamplerReturned(uids) ==
    /\ results' = Put(results, agency, uids)
    /\ exc' = "none"
    /\ pc' = "save"

\* Variant: the except branch of run records nothing.
SamplerRaisedUnrecorded(e) ==
    /\ results' = results
    /\ exc' = e
    /\ pc' = "save"

\* Variant: run has no except branch and the exception leaves it.
SamplerRaisedAborts(e) ==
    /\ results' = results
    /\ exc' = e
    /\ pc' = "aborted"

\* lines 341-343: except Exception: results[agency] = []
SamplerRaised(e) ==
    /\ results' = Put(results, agency, <<>>)
    /\ exc' = e
    /\ pc' = "save"

\* Variant: the failure is swallowed and the sampler goes on with the next year.
FacetFailedSwallowed ==
    /\ pc' = "year_loop"
    /\ UNCHANGED <<results, exc>>

\* lines 135-137 (logged and raised again) and lines 160-162 (no try around
\* the call): a failing facet call leaves the sampler as an exception
FacetFailed == SamplerRaised("QueryError")

\* Variant: there is no try around the find and its failure leaves the sampler.
FindFailedRaises ==
    /\ SamplerRaised("QueryError")
    /\ UNCHANGED <<sampled_uids, found>>

\* lines 218-219: except Exception around the find of one cell: logged, and
\* the for loop of line 172 goes on
FindFailed ==
    /\ pc' = "paper_loop"
    /\ UNCHANGED <<results, exc, sampled_uids, found>>

----------------------------------------------------------------------------
(* run_all_newsagencies, lines 322-328: the head of the for loop *)

\* Variant: a keyword that is skipped is followed by a write of the checkpoint.
LoopHeadSkipWrites ==
    /\ pc = "loop"
    /\ answer' = <<>>
    /\ IF idx > Len(agencies)
       THEN /\ pc' = "done"
            /\ idx' = idx
       ELSE IF AlreadyProcessed(results, agency)
       THEN /\ pc' = "save"
            /\ idx' = idx
       ELSE /\ pc' = "sample"
            /\ idx' = idx
    /\ UNCHANGED <<runVars, providerVars, proxyVars, fileVars, results, loaded, sampled_uids,
                   found, loopVars, exc, last, pauseDue, crashAt,
                   writeLog, tally>>

LoopHead ==
    /\ pc = "loop"
    /\ answer' = <<>>
    /\ IF idx > Len(agencies)
       THEN /\ pc' = "done"
            /\ idx' = idx
       ELSE IF AlreadyProcessed(results, agency)
       THEN /\ pc' = "loop"
            /\ idx' = idx + 1
       ELSE /\ pc' = "sample"
            /\ idx' = idx
    /\ UNCHANGED <<runVars, providerVars, proxyVars, fileVars, results, loaded, sampled_uids,
                   found, loopVars, exc, last, pauseDue, crashAt,
                   writeLog, tally>>

----------------------------------------------------------------------------
(* sample_impresso_uids *)

\* lines 111-129: the check of limit_per_query; the locals of a new call
Validate ==
    /\ pc = "sample"
    /\ answer' = <<>>
    /\ IF InvalidLimit(limit_per_query)
       THEN /\ SamplerRaised("ValueError")
            /\ UNCHANGED <<sampled_uids, found>>
            /\ date_range' = NoRange
       ELSE /\ sampled_uids' = <<>>
            /\ found' = 0
            /\ date_range' = CallerRange(start_date, end_date)
            /\ exc' = "none"
            /\ pc' = "facet_year"
            /\ UNCHANGED results
    /\ sorted_year_buckets' = <<>>
    /\ year' = NoYear
    /\ newspaper_buckets' = <<>>
    /\ newspaper_id' = NoPaper
    /\ tally' = NoTally
    /\ UNCHANGED <<runVars, providerVars, proxyVars, fileVars, loaded, idx, last, pauseDue,
                   crashAt, writeLog>>

\* Variant: an empty year facet does not end the sampler.
FacetYearNoReturn ==
    /\ pc = "facet_year"
    /\ \/ /\ Called("facet_year", FALSE)
          /\ Answered("facet_year", FALSE, <<>>)
          /\ FacetFailed
          /\ UNCHANGED sorted_year_buckets
       \/ \E year_buckets \in YearsWithin(date_range) :
             /\ Called("facet_year", TRUE)
             /\ Answered("facet_year", TRUE, year_buckets)
             /\ IF year_buckets = <<>>
                THEN /\ pc' = "facet_newspaper"
                     /\ UNCHANGED <<results, exc, sorted_year_buckets>>
                ELSE /\ sorted_year_buckets' = Sorted(year_buckets)
                     /\ pc' = "year_loop"
                     /\ UNCHANGED <<results, exc>>
    /\ UNCHANGED <<runVars, providerVars, fileVars, loaded, idx, sampled_uids, found, year,
                   newspaper_buckets, newspaper_id, date_range, pauseDue,
                   crashAt, writeLog>>

\* lines 131-148: the year facet; a failure is logged and raised again
FacetYear ==
    /\ pc = "facet_year"
    /\ \/ /\ Called("facet_year", FALSE)
          /\ Answered("facet_year", FALSE, <<>>)
          /\ FacetFailed
          /\ UNCHANGED sorted_year_buckets
       \/ \E year_buckets \in YearsWithin(date_range) :
             /\ Called("facet_year", TRUE)
             /\ Answered("facet_year", TRUE, year_buckets)
             /\ IF year_buckets = <<>>
                THEN /\ SamplerReturned(<<>>)
                     /\ UNCHANGED sorted_year_buckets
                ELSE /\ sorted_year_buckets' = Sorted(year_buckets)
                     /\ pc' = "year_loop"
                     /\ UNCHANGED <<results, exc>>
    /\ UNCHANGED <<runVars, providerVars, fileVars, loaded, idx, sampled_uids, found, year,
                   newspaper_buckets, newspaper_id, date_range, pauseDue,
                   crashAt, writeLog>>

\* lines 150-156 and 221-225: the for loop over the years, and the return
\* after the last one
NextYear ==
    /\ pc = "year_loop"
    /\ answer' = <<>>
    /\ IF sorted_year_buckets = <<>>
       THEN /\ SamplerReturned(sampled_uids)
            /\ UNCHANGED <<sorted_year_buckets, year, date_range>>
       ELSE /\ sorted_year_buckets' = Tail(sorted_year_buckets)
            /\ year' = Head(sorted_year_buckets)
            /\ date_range' = IF Head(sorted_year_buckets) = NoYear
                             THEN date_range
                             ELSE YearRange(Head(sorted_year_buckets))
            /\ pc' = IF Head(sorted_year_buckets) = NoYear
                     THEN "year_loop" ELSE "facet_newspaper"
            /\ UNCHANGED <<results, exc>>
    /\ UNCHANGED <<runVars, providerVars, proxyVars, fileVars, loaded, idx, sampled_uids,
                   found, newspaper_buckets, newspaper_id, last, pauseDue,
                   crashAt,
                   writeLog, tally>>

\* lines 160-170: the newspaper facet of one year, outside any try
FacetNewspaper ==
    /\ pc = "facet_newspaper"
    /\ \/ /\ Called("facet_newspaper", FALSE)
          /\ Answered("facet_newspaper", FALSE, <<>>)
          /\ FacetFailed
          /\ UNCHANGED newspaper_buckets
       \/ \E buckets \in PaperFacetResults :
             /\ Called("facet_newspaper", TRUE)
             /\ Answered("facet_newspaper", TRUE, buckets)
             /\ newspaper_buckets' = buckets
             /\ pc' = IF buckets = <<>> THEN "year_loop" ELSE "paper_loop"
             /\ UNCHANGED <<results, exc>>
    /\ UNCHANGED <<runVars, providerVars, fileVars, loaded, idx, sampled_uids, found,
                   sorted_year_buckets, year, newspaper_id, date_range, pauseDue,
                   crashAt,
                   writeLog>>

\* Variant: the loop passes over every second newspaper.
NextPaperSkipsOne ==
    /\ pc = "paper_loop"
    /\ answer' = <<>>
    /\ IF newspaper_buckets = <<>>
       THEN /\ pc' = "year_loop"
            /\ UNCHANGED <<newspaper_buckets, newspaper_id>>
       ELSE /\ newspaper_buckets' = Tail(Tail(newspaper_buckets) \o <<NoPaper>>)
            /\ newspaper_id' = Head(newspaper_buckets)
            /\ pc' = IF Head(newspaper_buckets) = NoPaper
                     THEN "paper_loop" ELSE "find"
    /\ UNCHANGED <<runVars, providerVars, proxyVars, fileVars, results, loaded, idx,
                   sampled_uids, found, sorted_year_buckets, year, date_range,
                   exc, last,
                   pauseDue, crashAt,
                   writeLog, tally>>

\* lines 172-178: the for loop over the newspapers of one year
NextPaper ==
    /\ pc = "paper_loop"
    /\ answer' = <<>>
    /\ IF newspaper_buckets = <<>>
       THEN /\ pc' = "year_loop"
            /\ UNCHANGED <<newspaper_buckets, newspaper_id>>
       ELSE /\ newspaper_buckets' = Tail(newspaper_buckets)
            /\ newspaper_id' = Head(newspaper_buckets)
            /\ pc' = IF Head(newspaper_buckets) = NoPaper
                     THEN "paper_loop" ELSE "find"
    /\ UNCHANGED <<runVars, providerVars, proxyVars, fileVars, results, loaded, idx,
                   sampled_uids, found, sorted_year_buckets, year, date_range,
                   exc, last,
                   pauseDue, crashAt,
                   writeLog, tally>>

\* Variant: the id of the newspaper is collected instead of the uid of the hit.
FindAppendsPaper ==
    /\ pc = "find"
    /\ \/ /\ Called("find", FALSE)
          /\ Answered("find", FALSE, <<>>)
          /\ pauseDue' = TRUE
          /\ FindFailed
       \/ \E hits \in HitLists :
             /\ Called("find", TRUE)
             /\ Answered("find", TRUE, hits)
             /\ pauseDue' = FALSE
             /\ IF hits = <<>>
                THEN /\ pc' = "paper_loop"
                     /\ UNCHANGED <<results, exc, sampled_uids, found>>
                ELSE \E i \in 1..Len(hits) :
                        IF hits[i] = NoUid
                        THEN /\ pc' = "paper_loop"
                             /\ UNCHANGED <<results, exc, sampled_uids, found>>
                        ELSE /\ sampled_uids' = Append(sampled_uids, newspaper_id)
                             /\ found' = found + 1
                             /\ IF ReachedMax(found + 1, max_hits)
                                THEN SamplerReturned(Append(sampled_uids, newspaper_id))
                                ELSE /\ pc' = "paper_loop"
                                     /\ UNCHANGED <<results, exc>>
    /\ UNCHANGED <<runVars, providerVars, fileVars, loaded, idx, loopVars, crashAt,
                   writeLog>>

\* lines 180-219: one find call for the cell (year, newspaper_id), the sleep,
\* the random choice among the hits, the cap; any exception is logged.
Find ==
    /\ pc = "find"
    /\ \/ /\ Called("find", FALSE)
          /\ Answered("find", FALSE, <<>>)
          /\ pauseDue' = TRUE
          /\ FindFailed
       \/ \E hits \in HitLists :
             /\ Called("find", TRUE)
             /\ Answered("find", TRUE, hits)
             /\ pauseDue' = FALSE
             /\ IF hits = <<>>
                THEN /\ pc' = "paper_loop"
                     /\ UNCHANGED <<results, exc, sampled_uids, found>>
                ELSE \E i \in 1..Len(hits) :
                        IF hits[i] = NoUid
                        THEN /\ pc' = "paper_loop"
                             /\ UNCHANGED <<results, exc, sampled_uids, found>>
                        ELSE /\ sampled_uids' = Append(sampled_uids, hits[i])
                             /\ found' = found + 1
                             /\ IF ReachedMax(found + 1, max_hits)
                                THEN SamplerReturned(Append(sampled_uids, hits[i]))
                                ELSE /\ pc' = "paper_loop"
                                     /\ UNCHANGED <<results, exc>>
    /\ UNCHANGED <<runVars, providerVars, fileVars, loaded, idx, loopVars, crashAt,
                   writeLog>>

----------------------------------------------------------------------------
(* run_all_newsagencies, lines 345-351: the checkpoint is rewritten in place *)

\* Variant: a failed open drops the results held in memory.
OpenOutForgets ==
    /\ pc = "save"
    /\ answer' = <<>>
    /\ prevFile' = file
    /\ \/ /\ file' = Truncated
          /\ pc' = "dump"
          /\ idx' = idx
          /\ writeLog' = writeLog
          /\ results' = results
       \/ /\ file' = file
          /\ pc' = "loop"
          /\ idx' = idx + 1
          /\ writeLog' = Append(writeLog, "failed")
          /\ results' = EmptyDict
    /\ tally' = NoTally
    /\ UNCHANGED <<runVars, providerVars, proxyVars, loaded, sampled_uids, found,
                   loopVars, exc, last, pauseDue, crashAt>>

\* line 347: open(out_path, "w") truncates the file, or raises
OpenOut ==
    /\ pc = "save"
    /\ answer' = <<>>
    /\ prevFile' = file
    /\ \/ /\ file' = Truncated
          /\ pc' = "dump"
          /\ idx' = idx
          /\ writeLog' = writeLog
       \/ /\ file' = file
          /\ pc' = "loop"
          /\ idx' = idx + 1
          /\ writeLog' = Append(writeLog, "failed")
    /\ tally' = NoTally
    /\ UNCHANGED <<runVars, providerVars, proxyVars, results, loaded, sampled_uids, found,
                   loopVars, exc, last, pauseDue, crashAt>>

\* Variant: only the entry of the keyword just processed is written.
DumpOnlyCurrent ==
    /\ pc = "dump"
    /\ answer' = <<>>
    /\ file' \in {Object(Dict1(agency, results[agency])), Truncated, Partial}
    /\ pc' = "loop"
    /\ idx' = idx + 1
    /\ prevFile' = file'
    /\ writeLog' = Append(writeLog, IF file'.kind = "object" THEN "ok" ELSE "failed")
    /\ UNCHANGED <<runVars, providerVars, proxyVars, results, loaded, sampled_uids, found,
                   loopVars, exc, last, pauseDue, crashAt, tally>>

\* line 348 and the close of the with block: json.dump writes the whole dict,
\* or raises and leaves what reached the disk
Dump ==
    /\ pc = "dump"
    /\ answer' = <<>>
    /\ file' \in {Object(results), Truncated, Partial}
    /\ pc' = "loop"
    /\ idx' = idx + 1
    /\ prevFile' = file'
    /\ writeLog' = Append(writeLog, IF file'.kind = "object" THEN "ok" ELSE "failed")
    /\ UNCHANGED <<runVars, providerVars, proxyVars, results, loaded, sampled_uids, found,
                   loopVars, exc, last, pauseDue, crashAt, tally>>

\* The process is killed (a signal, a power cut): its memory is gone and the
\* file stays as it is; at the dump, part of the text may already have
\* reached the disk.
Crash ==
    /\ pc \notin {"done", "aborted", "crashed"}
    /\ crashAt' = pc
    /\ pc' = "crashed"
    /\ IF pc = "dump" THEN file' \in {file, Partial} ELSE file' = file
    /\ results' = EmptyDict
    /\ loaded' = EmptyDict
    /\ idx' = 1
    /\ client' = 0
    /\ last_refresh' = 0
    /\ last_hint' = 0
    /\ now' = 0
    /\ sessions' = 0
    /\ acquireCalls' = 0
    /\ cur' = NoCur
    /\ attempted' = NoTime
    /\ sampled_uids' = <<>>
    /\ found' = 0
    /\ sorted_year_buckets' = <<>>
    /\ year' = NoYear
    /\ newspaper_buckets' = <<>>
    /\ newspaper_id' = NoPaper
    /\ date_range' = NoRange
    /\ exc' = "none"
    /\ last' = NoCall
    /\ pauseDue' = FALSE
    /\ answer' = <<>>
    /\ tally' = NoTally
    /\ writeLog' = <<>>
    /\ UNCHANGED <<runVars, providerVars, prevFile>>

----------------------------------------------------------------------------
(* getting_client.py: one call of get_impresso_token, lines 507-653, with the
   _goto_with_retries calls it makes, lines 476-488 *)

\* line 476: the default of the parameter, which every call of lines 540, 569
\* and 579 leaves as it is
attempts == 3

\* What page.goto does: it returns a response, or raises
GotoOutcomes ==
    [ok : {TRUE}, status : {200, 401}, err : {NoErr}]
        \cup [ok : {FALSE}, status : {0}, err : {"TimeoutError", "ConnectionReset"}]

\* line 481 and line 486: the two kinds of navigation
ShortWait(o) == [wait_until |-> "domcontentloaded", timeout |-> 45000, outcome |-> o]
LongWait(o) == [wait_until |-> "load", timeout |-> 60000, outcome |-> o]

Raised(by, err) == [by |-> by, err |-> err]
NoRaise == Raised("none", NoErr)

\* Variant: the error of the final attempt is raised.
RaisedByGotoFinal(err, final) == final

\* line 488: raise last_err or e, where e is not bound at that place
RaisedByGoto(err, final) == IF err # NoErr THEN err ELSE "UnboundLocalError"

\* the variables get_impresso_token does not touch
samplerVars == <<runVars, proxyVars, loopVars, fileVars, results, loaded, idx,
                 sampled_uids, found, exc, last, pauseDue, answer, tally,
                 writeLog, crashAt>>

\* a new call of _goto_with_retries
GotoCalled ==
    /\ goto_log' = <<>>
    /\ last_err' = NoErr
    /\ goto_i' = 0

\* get_impresso_token raises
TokenRaises(by, err) ==
    /\ pc' = "token_raised"
    /\ raised' = Raised(by, err)

\* lines 508-540: the environment is read and the browser is launched
TokenStart ==
    /\ pc = "token_start"
    /\ \E credentials \in BOOLEAN :
          IF credentials
          THEN /\ pc' = IF attempts > 0 THEN "goto_short" ELSE "goto_long"
               /\ nav_round' = 1
               /\ GotoCalled
               /\ UNCHANGED raised
          ELSE /\ TokenRaises("token", "RuntimeError")
               /\ UNCHANGED <<goto_log, last_err, goto_i, nav_round>>
    /\ UNCHANGED <<samplerVars, resp, token>>

\* lines 478-483: one pass of the for loop
GotoShort ==
    /\ pc = "goto_short"
    /\ goto_i < attempts
    /\ \E o \in GotoOutcomes :
          /\ goto_log' = Append(goto_log, ShortWait(o))
          /\ IF o.ok
             THEN /\ resp' = o
                  /\ pc' = "nav_status"
                  /\ UNCHANGED <<last_err, goto_i>>
             ELSE /\ last_err' = o.err
                  /\ goto_i' = goto_i + 1
                  /\ pc' = IF goto_i + 1 < attempts THEN "goto_short" ELSE "goto_long"
                  /\ UNCHANGED resp
    /\ UNCHANGED <<samplerVars, nav_round, token, raised>>

\* lines 484-488: the final attempt
GotoLong ==
    /\ pc = "goto_long"
    /\ \E o \in GotoOutcomes :
          /\ goto_log' = Append(goto_log, LongWait(o))
          /\ IF o.ok
             THEN /\ resp' = o
                  /\ pc' = "nav_status"
                  /\ UNCHANGED raised
             ELSE /\ TokenRaises("goto", RaisedByGoto(last_err, o.err))
                  /\ UNCHANGED resp
    /\ UNCHANGED <<samplerVars, last_err, goto_i, nav_round, token>>

\* lines 541-588: a 401 is answered by a navigation with http_credentials, a
\* second one by a navigation with the credentials in the URL, a third one
\* by an error; the 401 of the title is taken as that of the status
NavStatus ==
    /\ pc = "nav_status"
    /\ IF resp.status = 401
       THEN IF nav_round < 3
            THEN /\ nav_round' = nav_round + 1
                 /\ pc' = IF attempts > 0 THEN "goto_short" ELSE "goto_long"
                 /\ GotoCalled
                 /\ UNCHANGED raised
            ELSE /\ TokenRaises("token", "RuntimeError")
                 /\ UNCHANGED <<goto_log, last_err, goto_i, nav_round>>
       ELSE /\ pc' = "login"
            /\ UNCHANGED <<goto_log, last_err, goto_i, nav_round, raised>>
    /\ UNCHANGED <<samplerVars, resp, token>>

\* lines 590-616: the logins and the terms; an error of the page leaves the
\* function. The frame of _goto_with_retries is gone.
Login ==
    /\ pc = "login"
    /\ GotoCalled
    /\ \/ /\ pc' = "extract"
          /\ UNCHANGED raised
       \/ TokenRaises("token", "Error")
    /\ UNCHANGED <<samplerVars, nav_round, resp, token>>

\* lines 618-623
Extract ==
    /\ pc = "extract"
    /\ \E page \in Pages : token' = _extract_token(page)
    /\ pc' = IF Falsy(token') \/ ~_is_plausible_token(token')
             THEN "generate" ELSE "clean"
    /\ UNCHANGED <<samplerVars, goto_log, last_err, goto_i, nav_round, resp, raised>>

\* lines 626-632: the click or the extraction may raise, and the token is
\* then the one held
Generate ==
    /\ pc = "generate"
    /\ \E clicked \in BOOLEAN, page \in Pages :
          token' = IF clicked /\ ~_extract_token(page).none
                   THEN _extract_token(page) ELSE token
    /\ pc' = "clean"
    /\ UNCHANGED <<samplerVars, goto_log, last_err, goto_i, nav_round, resp, raised>>

\* lines 635-644
Clean ==
    /\ pc = "clean"
    /\ LET cleaned == _clean_token_artifacts(token)
       IN IF Falsy(cleaned)
          THEN \E txt \in {None} \cup {Str(t) : t \in Texts} :
                  token' = _read_clipboard_token(txt)
          ELSE token' = cleaned
    /\ pc' = "close"
    /\ UNCHANGED <<samplerVars, goto_log, last_err, goto_i, nav_round, resp, raised>>

\* lines 646-653
Close ==
    /\ pc = "close"
    /\ \/ IF Falsy(token) \/ ~_is_plausible_token(token)
          THEN TokenRaises("token", "RuntimeError")
          ELSE /\ pc' = "token_returned"
               /\ UNCHANGED raised
       \/ TokenRaises("token", "Error")
    /\ UNCHANGED <<samplerVars, goto_log, last_err, goto_i, nav_round, resp, token>>

ProviderInit ==
    /\ pc = "token_start"
    /\ file = Absent
    /\ agencies = <<>>
    /\ limit_per_query = 20
    /\ max_hits = 1
    /\ start_date = NoDate
    /\ end_date = NoDate
    /\ clock_steps = {0}
    /\ traced = FALSE
    /\ NoMemory
    /\ prevFile = file
    /\ crashAt = "none"

ProviderNext ==
    \/ TokenStart
    \/ GotoShort
    \/ GotoLong
    \/ NavStatus
    \/ Login
    \/ Extract
    \/ Generate
    \/ Clean
    \/ Close

ProviderSpec == ProviderInit /\ [][ProviderNext]_vars

----------------------------------------------------------------------------
Next ==
    \/ Load
    \/ CreateClient
    \/ CreateClientAgain
    \/ LoopHead
    \/ Validate
    \/ FacetYear
    \/ NextYear
    \/ FacetNewspaper
    \/ NextPaper
    \/ Find
    \/ OpenOut
    \/ Dump
    \/ Crash

Spec == Init /\ [][Next]_vars

LongSpec == LongInit /\ [][Next]_vars

TracedSpec == TracedInit /\ [][Next]_vars

DatedSpec == DatedInit /\ [][Next]_vars

\* The steps of the program itself. The program is one thread that takes its
\* next step whenever it has one, and every external call returns or fails.
RunNext ==
    \/ Load
    \/ CreateClient
    \/ CreateClientAgain
    \/ LoopHead
    \/ Validate
    \/ FacetYear
    \/ NextYear
    \/ FacetNewspaper
    \/ NextPaper
    \/ Find
    \/ OpenOut
    \/ Dump

FairInit == Init \/ LongInit

FairSpec == FairInit /\ [][RunNext]_vars /\ WF_vars(RunNext)

----------------------------------------------------------------------------
(* Vocabulary of the properties *)

SamplerPcs == {"sample", "facet_year", "year_loop", "facet_newspaper",
               "paper_loop", "find"}
CallSites == {"facet_year", "facet_newspaper", "find"}
FacetOps == {"facet_year", "facet_newspaper"}

\* This step issues a gateway call (through get_c) from call site p.
CallFrom(p) == pc = p /\ pc' # "crashed"
IsCall == \E p \in CallSites : CallFrom(p)

\* The sampler is running and has not returned yet.
Sampling == pc \in SamplerPcs \ {"sample"}

----------------------------------------------------------------------------
(* C1: for max_hits >= 1, a sampler that returns normally returns at most
   max_hits UIDs, and while the sampler is still running (so whenever it can
   issue another facet or find call) fewer than max_hits UIDs have been
   collected: reaching max_hits ends the call in the same step. *)
C1_AtMostMaxHits ==
    /\ found = Len(sampled_uids)
    /\ Sampling => found < max_hits
    /\ (pc = "save" /\ exc = "none") =>
          /\ agency \in DOMAIN results
          /\ Len(results[agency]) <= max_hits

\* The sampler returned with max_hits UIDs while a year and a newspaper of
\* the current year were still unvisited.
C1_Witness ==
    /\ pc = "save"
    /\ exc = "none"
    /\ Len(results[agency]) = max_hits
    /\ sorted_year_buckets # <<>>
    /\ newspaper_buckets # <<>>

(* C2: a keyword that the loaded checkpoint maps to a non-empty list is never
   handed to the sampler during the run (no call site is reached for it) and
   its list stays as loaded. *)
C2_DoneKeywordNotSampled ==
    \A k \in DOMAIN loaded :
        loaded[k] # <<>> =>
            /\ k \in DOMAIN results
            /\ results[k] = loaded[k]
            /\ (pc \in SamplerPcs \cup {"save", "dump"}) => agency # k

\* The run ended, it skipped a finished keyword and sampled another one.
C2_Witness ==
    /\ pc = "done"
    /\ \E i \in 1..Len(agencies) :
          agencies[i] \in DOMAIN loaded /\ loaded[agencies[i]] # <<>>
    /\ last.op # "none"

(* C3: a process killed during a checkpoint write leaves the checkpoint file
   equal to the complete previous content or to a complete new content. *)
C3_CrashLeavesCompleteFile ==
    crashAt = "dump" => (file = prevFile \/ file.kind = "object")

(* C4, as claimed: a failing facet call never leaves the sampler as an
   exception. *)
C4_FacetFailureCaught ==
    (last.op \in FacetOps /\ ~last.ok) => exc # "QueryError"

(* C4, amended: a failing facet call (year facet or newspaper facet) leaves
   the sampler as an exception; run catches it, records the keyword with an
   empty list, dropping the UIDs collected so far, and goes on to the
   checkpoint write. *)
C4_FacetFailurePropagates ==
    [][(\E p \in FacetOps : CallFrom(p)) /\ ~last'.ok =>
          /\ exc' = "QueryError"
          /\ pc' = "save"
          /\ results' = Put(results, agency, <<>>)]_vars

\* A newspaper facet failed after UIDs had been collected; the keyword is
\* recorded with an empty list.
C4_Witness ==
    /\ last.op = "facet_newspaper"
    /\ ~last.ok
    /\ sampled_uids # <<>>
    /\ pc = "save"
    /\ results[agency] = <<>>

(* C5: a failing find call appends nothing, keeps the UIDs collected so far,
   raises nothing and goes on to the next newspaper of the loop. *)
C5_FindFailureIsZeroHits ==
    [][CallFrom("find") /\ ~last'.ok =>
          /\ sampled_uids' = sampled_uids
          /\ found' = found
          /\ results' = results
          /\ exc' = exc
          /\ pc' = "paper_loop"]_vars

\* After a failed find, with UIDs collected before it, the sampler stands at
\* the find of a later cell.
C5_Witness ==
    /\ last.op = "find"
    /\ ~last.ok
    /\ sampled_uids # <<>>
    /\ pc = "find"

(* C6: when the sampler raises for a keyword, run records that keyword with
   an empty list and leaves every other entry as it was; a checkpoint write
   that then succeeds writes exactly that mapping; and whether the write
   succeeds or fails, run goes on to the next keyword. *)
C6_RaiseRecordsEmpty ==
    [][/\ (pc \in SamplerPcs /\ pc' # "crashed" /\ exc' # "none") =>
             /\ pc' = "save"
             /\ agency \in DOMAIN results'
             /\ results'[agency] = <<>>
             /\ \A k \in DOMAIN results \ {agency} :
                   k \in DOMAIN results' /\ results'[k] = results[k]
       /\ (pc = "dump" /\ exc # "none" /\ file'.kind = "object") =>
             /\ file' = Object(results)
             /\ file'.doc.members[agency] = JArray(<<>>)
       /\ (pc \in {"save", "dump"} /\ pc' \notin {"dump", "crashed"}) =>
             /\ pc' = "loop"
             /\ idx' = idx + 1]_vars

\* The first keyword raised, the checkpoint holds it with an empty list, and
\* the sampler is at work on the second keyword.
C6_Witness ==
    /\ idx = 2
    /\ pc = "facet_year"
    /\ file.kind = "object"
    /\ agencies[1] \in DOMAIN file.doc.members
    /\ file.doc.members[agencies[1]] = JArray(<<>>)
    /\ last.op \in FacetOps
    /\ ~last.ok

(* C7, as claimed: whatever the session provider does, run never ends with
   an exception. *)
C7_NeverAborts == pc # "aborted"

(* C7, amended: once both initial session acquisitions have succeeded, run
   completes whatever the gateway, the checkpoint store and the refreshes of
   the session do, with every input keyword in the result; when an initial
   acquisition fails, run ends with ImportError and has processed no keyword. *)
C7_CompletesOnceStarted ==
    /\ [](pc = "done" => \A i \in 1..Len(agencies) : agencies[i] \in DOMAIN results)
    /\ [](pc = "aborted" => exc = "ImportError" /\ results = loaded /\ last = NoCall)
    /\ (pc = "loop" ~> pc = "done")

\* The run completed after a gateway failure, a failed refresh and a failed
\* checkpoint write.
C7_Witness ==
    /\ pc = "done"
    /\ exc = "QueryError"
    /\ cur.refresh = "failed"
    /\ file.kind # "object"
    /\ agencies[1] \in DOMAIN results

(* C8: a get_client() call made when now - last_refresh >= the refresh
   interval calls _get_impresso_client_lazy exactly once; a call made before
   that calls it zero times. *)
C8_ProviderCalledIffDue ==
    [][IsCall =>
          acquireCalls' - acquireCalls =
             IF now' - last_refresh >= CLIENT_REFRESH_INTERVAL_SECONDS
             THEN 1 ELSE 0]_vars

\* A gateway call whose get_client() refreshed: the third provider call of
\* the run, after the two of the start.
C8_Witness ==
    /\ cur.refresh = "ok"
    /\ acquireCalls = 3
    /\ last.op # "none"

(* C9: a refresh that fails inside get_client() raises nothing and leaves
   the session as it was; the gateway call is made on that session, and the
   session changes only in a get_client() call whose refresh succeeds. *)
C9_FailedRefreshKeepsSession ==
    [][/\ (IsCall /\ cur'.refresh = "failed") =>
             /\ client' = client
             /\ last'.session = client
             /\ exc' # "ImportError"
             /\ pc' # "aborted"
       /\ (Sampling /\ pc' # "crashed" /\ client' # client) =>
             cur'.refresh = "ok"]_vars

\* A refresh failed and the gateway call was made on the session held before.
C9_Witness ==
    /\ cur.refresh = "failed"
    /\ client = cur.held
    /\ client # 0
    /\ last.session = client
    /\ last.ok

(* C10: no gateway call is issued while the pause that follows a find call is
   still due, whatever the outcome of that find call was. *)
C10_PauseAfterEveryFind == [][IsCall => ~pauseDue]_vars

\* Position of a newspaper id in the ascending (lexicographic) order of the
\* ids of the model.
PaperRank(p) == CASE p = NoPaper -> 0 [] p = "GDL" -> 1 [] p = "JDG" -> 2

(* C11: the sampler visits the years in ascending order and, within one year,
   the newspapers in ascending order of their id, whatever the order of the
   facet answers; the UIDs are appended in that order of the cells. *)
C11_CellsAscending ==
    [][/\ (pc = "year_loop" /\ pc' = "facet_newspaper" /\ year # NoYear) =>
             year' > year
       /\ (pc = "paper_loop" /\ pc' = "find" /\ last.op = "find") =>
             PaperRank(newspaper_id') > PaperRank(newspaper_id)]_vars

(* C12: when limit_per_query is outside 1..100, every call of the sampler
   raises ValueError as its first step: the run never reaches a facet or find
   call, no gateway call is ever recorded, and the client accessor get_client
   is never invoked. *)
C12_InvalidLimitRaisesFirst ==
    /\ [](limit_per_query \notin 1..100 =>
             /\ pc \notin SamplerPcs \ {"sample"}
             /\ last = NoCall
             /\ cur = NoCur)
    /\ [][(pc = "sample" /\ pc' # "crashed" /\ limit_per_query \notin 1..100) =>
             /\ pc' = "save"
             /\ exc' = "ValueError"
             /\ results'[agency] = <<>>]_vars

C12_Witness ==
    /\ limit_per_query \notin 1..100
    /\ pc = "save"
    /\ exc = "ValueError"
    /\ idx = 2
    /\ last = NoCall
    /\ cur = NoCur

(* C13: every facet or find call is issued on the session that the accessor
   get_client returned in the same step, which is the session the run holds
   after that step; in particular a call made in or after the step of a
   successful refresh never uses the replaced session.  Between two calls
   the sampler neither invokes the accessor nor changes the session. *)
C13_CallUsesCurrentSession ==
    /\ [](last.op # "none" => last.session = client)
    /\ [][IsCall =>
             /\ last'.session = client'
             /\ cur'.refresh = "ok" => last'.session # cur'.held]_vars
    /\ [][(pc \in SamplerPcs \ CallSites /\ pc' # "crashed") =>
             UNCHANGED <<client, cur, last>>]_vars

\* A find call that did not refresh, made after the refresh of an earlier
\* call replaced session 2 of the start by session 3.
C13_Witness ==
    /\ last.op = "find"
    /\ cur.refresh = "none"
    /\ acquireCalls = 3
    /\ sessions = 3
    /\ last.session = 3

\* This step is a checkpoint write that fails: the open raises, or the dump
\* raises and leaves an incomplete text.
WriteFails ==
    \/ pc = "save" /\ pc' = "loop"
    \/ pc = "dump" /\ pc' = "loop" /\ file'.kind # "object"

\* This step is a checkpoint write that succeeds.
WriteSucceeds == pc = "dump" /\ pc' = "loop" /\ file'.kind = "object"

(* C14: a checkpoint write that fails raises nothing out of run: the run goes
   on to the next keyword with the results in memory unchanged, and the
   entries of the keywords already passed are never changed afterwards.  A
   write that succeeds writes the whole dict held in memory, which has an
   entry for every keyword passed so far, the ones whose write failed
   included. *)
C14_FailedWriteKeepsProgress ==
    /\ [][WriteFails =>
             /\ results' = results
             /\ idx' = idx + 1
             /\ exc' = exc]_vars
    /\ [][(pc = "save" \/ pc = "dump") =>
             (pc' = "dump" \/ pc' = "loop" \/ pc' = "crashed")]_vars
    /\ [][(pc \in {"loop", "save", "dump"} \cup SamplerPcs /\ pc' # "crashed") =>
             \A i \in 1..(idx - 1) :
                /\ agencies[i] \in DOMAIN results
                /\ agencies[i] \in DOMAIN results'
                /\ results'[agencies[i]] = results[agencies[i]]]_vars
    /\ [][WriteSucceeds =>
             /\ file' = Object(results)
             /\ \A i \in 1..idx : agencies[i] \in DOMAIN file'.doc.members]_vars

\* The write after the first keyword failed and the write after the second
\* succeeded: the file holds the UIDs sampled for the first keyword too.
C14_Witness ==
    /\ writeLog = <<"failed", "ok">>
    /\ pc = "loop"
    /\ file.kind = "object"
    /\ file = Object(results)
    /\ agencies[1] \in DOMAIN file.doc.members
    /\ file.doc.members[agencies[1]] # JArray(<<>>)

\* The checkpoint this run loaded has no entry for keyword k, or an empty one.
Unfinished(k) == k \notin DOMAIN loaded \/ loaded[k] = <<>>

(* C15: when the loop of run comes to a keyword that the checkpoint it loaded
   does not map to a non-empty list (no entry, or an empty list), it hands
   the keyword to the sampler instead of skipping it, and the sampler, given
   a valid limit, goes on to its year facet call. *)
C15_UnfinishedKeywordSampledAgain ==
    /\ [][(pc = "loop" /\ idx <= Len(agencies) /\ pc' # "crashed"
             /\ Unfinished(agency)) =>
             (pc' = "sample" /\ idx' = idx)]_vars
    /\ [][(pc = "sample" /\ pc' # "crashed" /\ limit_per_query \in 1..100) =>
             (pc' = "facet_year" /\ idx' = idx /\ sampled_uids' = <<>>)]_vars

\* The second keyword is sampled again: the checkpoint of an earlier run holds
\* an empty list for the first keyword, which was sampled again and saved,
\* and no entry for the one now at its year facet call.
C15_Witness ==
    /\ pc = "facet_year"
    /\ idx = 2
    /\ loaded # EmptyDict
    /\ agencies[1] \in DOMAIN loaded
    /\ loaded[agencies[1]] = <<>>
    /\ agency \notin DOMAIN loaded
    /\ writeLog # <<>>

(* C16: the year facet is the first gateway call of a sampler call; when it
   succeeds and its answer holds no bucket, the sampler returns the empty
   list in the same step, so that call is its only gateway call: no
   newspaper facet and no find call is made for the keyword. *)
C16_NoYearsOneCall ==
    /\ [](pc = "facet_year" => tally = NoTally)
    /\ [][(CallFrom("facet_year") /\ last'.ok /\ answer' = <<>>) =>
             /\ pc' = "save"
             /\ exc' = "none"
             /\ results'[agency] = <<>>
             /\ tally'.facets = 1
             /\ tally'.finds = 0]_vars
    /\ [][(pc = "save" /\ pc' # "crashed") => pc' \notin SamplerPcs]_vars

\* The year facet of the second keyword answered with no bucket and the
\* sampler returned.
C16_Witness ==
    /\ pc = "save"
    /\ idx = 2
    /\ last.op = "facet_year"
    /\ last.ok
    /\ answer = <<>>
    /\ exc = "none"
    /\ results[agency] = <<>>
    /\ tally.facets = 1

(* C17: a find call that collects anything appends exactly one UID, and that
   UID is the uid of one of the hits of its own answer; a find call that
   fails collects nothing; no other step of the sampler adds to the
   collection, and the list the sampler returns is that collection. *)
C17_UidFromOwnHits ==
    /\ [][CallFrom("find") =>
             \/ sampled_uids' = sampled_uids
             \/ /\ last'.ok
                /\ \E i \in 1..Len(answer') :
                      /\ answer'[i] # NoUid
                      /\ sampled_uids' = Append(sampled_uids, answer'[i])]_vars
    /\ [][(Sampling /\ pc # "find" /\ pc' # "crashed") =>
             sampled_uids' = sampled_uids]_vars
    /\ []((pc = "save" /\ exc = "none") => results[agency] = sampled_uids)

\* The sampler returned two UIDs, the second one drawn from a find answer of
\* two hits.
C17_Witness ==
    /\ pc = "save"
    /\ exc = "none"
    /\ Len(results[agency]) = 2
    /\ last.op = "find"
    /\ Len(answer) = 2
    /\ results[agency][2] \in Range(answer)

Min(a, b) == IF a < b THEN a ELSE b

\* The sampler has returned normally and run has not yet begun the write.
Returned == pc = "save" /\ exc = "none"

(* C18, as claimed: when no gateway call of a sampler call failed and every
   find answer held at least one hit with a uid, the sampler has made
   min(max_hits, number of cells) find calls and returns that many UIDs.
   The cells counted are those of the years whose newspaper facet was made;
   the years not reached when the cap ends the call can only add cells. *)
C18_OneUidPerCellSomeUid ==
    (Returned /\ tally.hits # "void") =>
        /\ tally.finds = Min(max_hits, tally.cells)
        /\ Len(results[agency]) = tally.finds

(* C18, amended: when no gateway call of a sampler call failed and every hit
   of every find answer carried a uid (each answer holding at least one hit),
   the sampler has made min(max_hits, number of cells) find calls and returns
   that many UIDs; and a keyword whose year facet answered with no bucket is
   recorded by run with an empty list. *)
C18_OneUidPerCellAllUid ==
    /\ (Returned /\ tally.hits = "all_uid") =>
          /\ tally.finds = Min(max_hits, tally.cells)
          /\ Len(results[agency]) = tally.finds
    /\ (Returned /\ last.op = "facet_year" /\ tally.facets = 1) =>
          /\ agency \in DOMAIN results
          /\ results[agency] = <<>>

\* Three cells were seen, every find answer held only hits with a uid, and
\* the cap of two ended the sampler after two find calls.
C18_Witness ==
    /\ Returned
    /\ tally.hits = "all_uid"
    /\ max_hits = 2
    /\ tally.cells = 3
    /\ tally.finds = 2
    /\ Len(results[agency]) = 2

\* The keywords before position n that this run did not skip
Processed(n) == {i \in 1..(n - 1) : Unfinished(agencies[i])}

(* C19: whenever run is at the head of its loop or inside the sampler for
   the keyword at position idx, every keyword before it that was handed to
   the sampler (whether the sampler returned or raised) has had its
   checkpoint write attempted; a successful write leaves in the file the
   whole dict held in memory, and the file equals that dict until the next
   keyword has been processed. *)
C19_WriteAfterEveryKeyword ==
    /\ []((pc \in SamplerPcs \cup {"loop", "done"}) =>
             /\ Len(writeLog) = Cardinality(Processed(idx))
             /\ (writeLog # <<>> /\ writeLog[Len(writeLog)] = "ok") =>
                   file = Object(results))
    /\ [][(pc = "save" /\ pc' # "crashed") => (pc' = "dump" \/ pc' = "loop")]_vars
    /\ [][WriteSucceeds => file' = Object(results) /\ results' = results]_vars

\* The first keyword was sampled and written, and the sampler is about to
\* make the first gateway call for the second keyword.
C19_Witness ==
    /\ pc = "facet_year"
    /\ idx = 2
    /\ writeLog = <<"ok">>
    /\ file = Object(results)
    /\ agencies[1] \in DOMAIN results
    /\ results[agencies[1]] # <<>>
    /\ Unfinished(agencies[1])

\* The checkpoint exists and is not the text of a JSON object: it cannot be
\* read, is not valid JSON, or holds another JSON value.
Malformed(f) == f.kind \in {"unreadable", "empty", "partial", "nonobject"}

(* C20: loading a checkpoint that cannot be read, is not valid JSON or is not
   a JSON object does not end the run: run goes on with an empty results
   dict, and as long as the file is still the one that was loaded no keyword
   of the list is skipped, each is handed to the sampler. *)
C20_MalformedCheckpointIsEmpty ==
    /\ [][(pc = "load" /\ Malformed(file) /\ pc' # "crashed") =>
             /\ results' = EmptyDict
             /\ loaded' = EmptyDict
             /\ pc' = IF agencies = <<>> THEN "done" ELSE "create_client"
             /\ exc' = "none"]_vars
    /\ []((loaded = EmptyDict /\ pc = "done" /\ agencies # <<>>) =>
             /\ Len(writeLog) = Len(agencies)
             /\ \A i \in 1..Len(agencies) : agencies[i] \in DOMAIN results)
    /\ [][(loaded = EmptyDict /\ pc = "loop" /\ idx <= Len(agencies)
             /\ pc' # "crashed") => pc' = "sample"]_vars

\* The checkpoint holds a JSON list; run loaded it as empty and is sampling
\* its first keyword.
C20_Witness ==
    /\ file = NonObject
    /\ pc = "find"
    /\ idx = 1
    /\ loaded = EmptyDict
    /\ results = EmptyDict

(* C21: the checkpoint that a write of run leaves, loaded the way run loads
   it, gives a dict equal to the one that was written: the same keys, each
   with the same UIDs in the same order; and a checkpoint that is the dump of
   a dict is loaded by run as a dict whose dump is that checkpoint. *)
C21_RoundTrip ==
    /\ [][WriteSucceeds => LoadResults(file') = results]_vars
    /\ [][(pc = "load" /\ pc' # "crashed" /\ file.kind = "object") =>
             Object(results') = file]_vars

\* A dict of two keywords, one with two different UIDs and one with none,
\* has been written, and the file loads as that dict.
C21_Witness ==
    /\ pc = "loop"
    /\ writeLog # <<>>
    /\ writeLog[Len(writeLog)] = "ok"
    /\ file.kind = "object"
    /\ \E k \in DOMAIN results :
          Len(results[k]) = 2 /\ results[k][1] # results[k][2]
    /\ \E k \in DOMAIN results : results[k] = <<>>
    /\ LoadResults(file) = results

(* C22: no step of a running process removes a key of results or changes an
   entry that holds a non-empty list; and every checkpoint write that
   succeeds holds, as loaded, the entries of the loaded checkpoint whose
   keyword is not in the input list. *)
C22_ResultsGrow ==
    /\ [][pc' # "crashed" =>
             \A k \in DOMAIN results :
                /\ k \in DOMAIN results'
                /\ results[k] # <<>> => results'[k] = results[k]]_vars
    /\ [][WriteSucceeds =>
             \A k \in DOMAIN loaded \ Range(agencies) :
                /\ k \in DOMAIN file'.doc.members
                /\ file'.doc.members[k] = DumpList(loaded[k])]_vars

\* The checkpoint held an empty list for the first keyword and an entry for a
\* keyword that is not in the list; the first keyword now has UIDs and the
\* written file still holds the other entry.
C22_Witness ==
    /\ pc = "loop"
    /\ writeLog = <<"ok">>
    /\ "other" \in DOMAIN loaded
    /\ "other" \notin Range(agencies)
    /\ loaded[agencies[1]] = <<>>
    /\ results[agencies[1]] # <<>>
    /\ file.kind = "object"
    /\ file.doc.members["other"] = DumpList(loaded["other"])

(***************************************************************************)
(* C23: every source-facet and find query the sampler issues has a date    *)
(* range contained in the range the caller gave: it does not begin before  *)
(* the start date and does not end after the end date.  The code replaces  *)
(* the range by the whole calendar year at line 156, so this does not hold *)
(* of a campaign whose start date or end date lies inside a year.          *)
(***************************************************************************)
WithinCaller(range) ==
    /\ start_date # NoDate =>
          /\ range.from # NoDate
          /\ range.from >= start_date
    /\ end_date # NoDate =>
          /\ range.to # NoDate
          /\ range.to <= end_date

C23_QueriesWithinCallerRange ==
    [][(CallFrom("facet_newspaper") \/ CallFrom("find")) =>
          WithinCaller(date_range)]_vars

(***************************************************************************)
(* C24: a hint emitted inside get_client changes nothing of the proxy but  *)
(* last_hint.  In a call during which a hint is emitted, the held client,  *)
(* last_refresh and the count of provider calls are what they are in a     *)
(* call without a hint: unchanged when no refresh is due, and when one is  *)
(* due last_refresh is the time of the call and the client is the one held *)
(* or the one the provider made.  The gateway call is issued on the client *)
(* the proxy holds after the call.                                         *)
(***************************************************************************)
C24_HintChangesOnlyLastHint ==
    [][(IsCall /\ cur'.hint) =>
          /\ last_hint' = now'
          /\ last'.session = client'
          /\ IF RefreshDue(now', last_refresh)
             THEN /\ last_refresh' = now'
                  /\ acquireCalls' = acquireCalls + 1
                  /\ client' = IF cur'.refresh = "ok" THEN sessions' ELSE client
             ELSE /\ last_refresh' = last_refresh
                  /\ client' = client
                  /\ sessions' = sessions
                  /\ acquireCalls' = acquireCalls]_vars

\* A call with a hint and no refresh has been made, later than the last
\* refresh, on the client held before it.
C24_Witness ==
    /\ cur.hint
    /\ cur.refresh = "none"
    /\ last_hint = now
    /\ last_refresh < now
    /\ last # NoCall
    /\ last.session = cur.held
    /\ client = cur.held

(***************************************************************************)
(* C25: after a refresh attempt of get_client at time t, successful or     *)
(* failed, no later call of get_client invokes the provider before         *)
(* t + CLIENT_REFRESH_INTERVAL_SECONDS: a call made earlier than that      *)
(* leaves the count of provider calls, the sessions and the client as      *)
(* they are, and a call that does invoke the provider is at least a full   *)
(* interval after the attempt.  Every attempt, failed ones included, is    *)
(* recorded as the last refresh.                                           *)
(***************************************************************************)
C25_NoRetryBeforeTTL ==
    /\ [][(IsCall /\ attempted # NoTime) =>
             /\ now' < attempted + CLIENT_REFRESH_INTERVAL_SECONDS =>
                   /\ acquireCalls' = acquireCalls
                   /\ sessions' = sessions
                   /\ client' = client
                   /\ attempted' = attempted
             /\ acquireCalls' # acquireCalls =>
                   now' >= attempted + CLIENT_REFRESH_INTERVAL_SECONDS]_vars
    /\ [][(IsCall /\ acquireCalls' # acquireCalls) =>
             /\ attempted' = now'
             /\ last_refresh' = now']_vars

\* The single refresh attempt of the run failed, and a later call, made
\* before a further interval had passed, did not invoke the provider.
C25_Witness ==
    /\ attempted # NoTime
    /\ acquireCalls = 3
    /\ sessions = 2
    /\ now > attempted
    /\ now < attempted + CLIENT_REFRESH_INTERVAL_SECONDS
    /\ cur.refresh = "none"
    /\ last # NoCall
    /\ last.session = client

(***************************************************************************)
(* C26: run invokes the provider exactly once before the first keyword is  *)
(* processed, so the provider calls of a run are one more than the refresh *)
(* attempts of get_client: as long as get_client has attempted no refresh, *)
(* a run that is in its keyword loop has called the provider once.  The    *)
(* code creates the client at line 291 and once more at line 318, so the   *)
(* count is two.                                                           *)
(***************************************************************************)
C26_OneProviderCallPlusRefreshes ==
    (pc = "loop" /\ attempted = NoTime) => acquireCalls = 1

\* Every keyword of the list has a non-empty list in the checkpoint file f.
Finished(f) ==
    /\ f.kind = "object"
    /\ \A i \in 1..Len(agencies) :
          /\ agencies[i] \in DOMAIN LoadResults(f)
          /\ LoadResults(f)[agencies[i]] # <<>>

(***************************************************************************)
(* C27: run is a no-op on a finished campaign.  While the checkpoint file  *)
(* holds a non-empty list for every keyword of the list, no step of run    *)
(* issues a gateway call, enters the sampler or starts a write, and the    *)
(* content of the file stays as it is.                                     *)
(***************************************************************************)
C27_FinishedCampaignNoOp ==
    [][Finished(file) =>
          /\ ~IsCall
          /\ pc' \notin SamplerPcs
          /\ pc' # "save"
          /\ pc' # "dump"
          /\ file' = file]_vars

\* A run over two keywords has ended on the finished checkpoint it loaded,
\* without a gateway call and without a write.
C27_Witness ==
    /\ pc = "done"
    /\ Len(agencies) = 2
    /\ Finished(file)
    /\ results = LoadResults(file)
    /\ loaded = results
    /\ idx = Len(agencies) + 1
    /\ last = NoCall
    /\ writeLog = <<>>
    /\ crashAt = "none"

(***************************************************************************)
(* C28: a call of get_impresso_token returns a token that passes the       *)
(* plausibility check or fails with an error.  A token that is returned is *)
(* not None and not empty and has the shape of a JWT, or is 64 or more hex *)
(* characters, or is 64 or more base64-like characters; a call that has    *)
(* failed has raised an error.                                             *)
(***************************************************************************)
C28_ReturnedTokenPlausible ==
    /\ pc = "token_returned" =>
          /\ ~token.none
          /\ token.s # <<>>
          /\ \/ JWT_REGEX(token.s)
             \/ HEX_LONG_REGEX(token.s)
             \/ BASE64ISH_LONG_REGEX(token.s)
          /\ raised = NoRaise
    /\ pc = "token_raised" => raised # NoRaise

\* A token of 64 base64-like characters has been returned after a
\* navigation that needed a second round.
C28_Witness ==
    /\ pc = "token_returned"
    /\ token = Str(LongBase64ish)
    /\ nav_round = 2
    /\ raised = NoRaise

(***************************************************************************)
(* C29: _goto_with_retries with attempts = 3 makes at most 3 navigation    *)
(* attempts with the short wait, then at most one with the longer wait,    *)
(* and calls nothing else between them; an attempt is made only after      *)
(* every attempt before it has failed, and the function returns the        *)
(* response of the attempt that succeeded; when all 4 attempts have failed *)
(* it raises the error of the third attempt, the last one with the short   *)
(* wait.                                                                   *)
(***************************************************************************)
C29_GotoWithRetries ==
    /\ attempts = 3
    /\ Len(goto_log) <= 4
    /\ \A i \in 1..Len(goto_log) :
          /\ goto_log[i] = IF i <= 3 THEN ShortWait(goto_log[i].outcome)
                           ELSE LongWait(goto_log[i].outcome)
          /\ i < Len(goto_log) => ~goto_log[i].outcome.ok
    /\ pc = "nav_status" =>
          /\ goto_log # <<>>
          /\ goto_log[Len(goto_log)].outcome.ok
          /\ resp = goto_log[Len(goto_log)].outcome
    /\ (pc = "goto_short" \/ pc = "goto_long") =>
          \A i \in 1..Len(goto_log) : ~goto_log[i].outcome.ok
    /\ raised.by = "goto" =>
          /\ Len(goto_log) = 4
          /\ \A i \in 1..4 : ~goto_log[i].outcome.ok
          /\ raised.err = goto_log[3].outcome.err

\* All 4 attempts have failed, the third with another error than the first
\* and than the final one, and the function has raised.
C29_Witness ==
    /\ pc = "token_raised"
    /\ raised.by = "goto"
    /\ Len(goto_log) = 4
    /\ goto_log[3].outcome.err # goto_log[4].outcome.err
    /\ goto_log[3].outcome.err # goto_log[1].outcome.err
    /\ raised.err = goto_log[3].outcome.err

====
